---- MODULE Spec2Model ----
(***************************************************************************)
(* vsql_mysql: the MySQL implementation of the vsql capability interfaces. *)
(*                                                                         *)
(* The model covers the connection handle (mySQL), the transaction handle  *)
(* (mySQLtx), the rendering of parameterized queries through the MySQL     *)
(* interpolation strategy, and the transaction lifecycle wrapper vsql.Txn  *)
(* that drives a mySQLtx through Begin, the body and Commit or Rollback.   *)
(* database/sql is the backend: sql.DB is the pool and the committed       *)
(* table, a sql.Tx is a reserved connection with its uncommitted rows.     *)
(***************************************************************************)
EXTENDS Integers, Sequences, FiniteSets, TLC

\* ---------------------------------------------------------------- bounds
\* number of transaction handles Begin may hand out in one behaviour
MaxTx == 1
\* number of rows the table and the open transactions may hold together
MaxRows == 2
\* number of statements Prepare may hand out in one behaviour
MaxStmt == 1
\* number of tokens of a rendered template, and of appended values
MaxLen == 3

\* ------------------------------------------------------------ error values
\* the nil error
Nil == "nil"
\* sql.ErrTxDone: "sql: transaction has already been committed or rolled back"
ErrTxDone == "ErrTxDone"
\* any error the driver or the server reports for one call
ErrBackend == "ErrBackend"
\* the renderer's error for a named placeholder without a bound value
ErrMissingBinding == "ErrMissingBinding"
\* the error of a call on a *sql.Stmt after its Close
ErrStmtClosed == "ErrStmtClosed"
\* context.Canceled: the error of a call whose context was cancelled in flight
ErrCanceled == "ErrCanceled"
\* the error a transaction body returns
ErrBody == "ErrBody"
\* the value a transaction body panics with
PanicBody == "PanicBody"
\* the runtime panic of a method call through a nil *sql.Tx
PanicNilDeref == "PanicNilDeref"
\* no panic
NoPanic == "none"

\* ------------------------------------------------- parameterized queries
\* A template is a sequence of tokens: <<"lit", text>> is literal text,
\* <<"par", name>> is a named placeholder marker (":name").
Lit(s) == <<"lit", s>>
Par(n) == <<"par", n>>

NoBindings == [n \in {} |-> 0]

\* param.NewAppendWithData(text, args...): positional style
NewAppendWithData(tmpl, args) ==
    [style |-> "append", tmpl |-> tmpl, named |-> NoBindings, args |-> args]

\* param.NewNamedWithData(text, map): named style
NewNamedWithData(tmpl, named) ==
    [style |-> "named", tmpl |-> tmpl, named |-> named, args |-> <<>>]

\* a query without parameters, for the calls that take none
NoQuery == NewAppendWithData(<<>>, <<>>)

\* the queries the callers of the model issue
Queries ==
    { NewAppendWithData(<<Lit("INSERT"), Lit("?")>>, <<21>>),
      NewNamedWithData(<<Lit("INSERT"), Par("age")>>, [n \in {"age"} |-> 21]),
      NewNamedWithData(<<Lit("INSERT"), Par("age")>>, NoBindings),
      NewAppendWithData(<<Lit("SELECT")>>, <<>>) }

\* the query that counts the rows of the table
CountQuery == NewAppendWithData(<<Lit("SELECT")>>, <<>>)

\* the parameters the callers hand to a call on a statement: only the bound
\* values reach the backend, the text is the statement's
StmtParams ==
    { NewAppendWithData(<<Lit("INSERT"), Lit("?")>>, <<21>>),
      NewNamedWithData(<<Lit("INSERT"), Par("age")>>, NoBindings) }

\* the one value handed to a statement that inserts
InsertParam == NewAppendWithData(<<Lit("INSERT"), Lit("?")>>, <<21>>)

\* the queries the callers hand to Prepare: only the text of a query reaches
\* the backend, the bound values are given with each call on the statement
PrepareQueries ==
    { NewAppendWithData(<<Lit("INSERT"), Lit("?")>>, <<>>),
      NewNamedWithData(<<Lit("INSERT"), Par("age")>>, NoBindings) }

\* the names a template refers to and the value a caller binds to each
Names == {"a", "b"}
ValueOf == [n \in Names |-> IF n = "a" THEN 5 ELSE 7]

\* the templates of at most MaxLen tokens over one literal and the markers
Templates ==
    UNION { [1..n -> {Lit("x")} \cup {Par(m) : m \in Names}] : n \in 0..MaxLen }

\* named-style queries: every template with every subset of the names bound
NamedQueries ==
    { NewNamedWithData(t, [n \in S |-> ValueOf[n]]) :
          t \in Templates, S \in SUBSET Names }

\* positional-style queries: up to MaxLen values appended in every order,
\* the text holding one "?" for each
AppendQueries ==
    { NewAppendWithData(<<Lit("x")>> \o [i \in 1..Len(a) |-> Lit("?")], a) :
          a \in UNION { [1..n -> {5, 7}] : n \in 0..MaxLen } }

\* SELECT x WHERE y = :a AND z = :a, with a = 5
ScenarioQuery ==
    NewNamedWithData(<<Lit("SELECT x WHERE y ="), Par("a"), Lit("AND z ="), Par("a")>>,
                     [n \in {"a"} |-> 5])

\* the writes a caller hands to both handles: two values, one appended and
\* one bound by name, and a query with a name left unbound
PairQueries ==
    { NewAppendWithData(<<Lit("INSERT"), Lit("?")>>, <<21>>),
      NewNamedWithData(<<Lit("INSERT"), Par("a")>>, [n \in {"a"} |-> 5]),
      NewNamedWithData(<<Lit("INSERT"), Par("age")>>, NoBindings) }

\* the queries whose rendering is examined
RenderQueries == NamedQueries \cup AppendQueries \cup {ScenarioQuery}

\* the parameters whose use by a statement is examined: the short queries
\* of RenderQueries, and positional ones that differ in their text alone
StmtRenderQueries ==
    {q \in RenderQueries : Len(q.tmpl) <= 2}
        \cup { NewAppendWithData(t, <<5>>) :
                   t \in {<<Lit("INSERT"), Lit("?")>>, <<Lit("SELECT")>>, <<>>} }

\* a strategy that numbers its tokens
InsertPlaceholderIntoSQLNumbered == "$1"

\* mySQLParamInterpolateStrategy.InsertPlaceholderIntoSQL
InsertPlaceholderIntoSQL == "?"

\* the names of the placeholder markers of a template, left to right
RECURSIVE Markers(_)
Markers(tmpl) ==
    IF tmpl = <<>> THEN <<>>
    ELSE IF Head(tmpl)[1] = "par"
         THEN <<Head(tmpl)[2]>> \o Markers(Tail(tmpl))
         ELSE Markers(Tail(tmpl))

\* query.SQLQuery(strategy): the text alone, every marker replaced by the
\* strategy's token, no bound value looked up
SQLQuery(q) ==
    [i \in 1..Len(q.tmpl) |->
        IF q.tmpl[i][1] = "par" THEN InsertPlaceholderIntoSQL ELSE q.tmpl[i][2]]

\* query.Interpolate(strategy): text, ordered arguments, error
Interpolate(q) ==
    IF q.style = "append"
    THEN [text |-> SQLQuery(q), args |-> q.args, err |-> Nil]
    ELSE LET ms == Markers(q.tmpl) IN
         IF \E i \in 1..Len(ms) : ms[i] \notin DOMAIN q.named
         THEN [text |-> <<>>, args |-> <<>>, err |-> ErrMissingBinding]
         ELSE [text |-> SQLQuery(q),
               args |-> [i \in 1..Len(ms) |-> q.named[ms[i]]],
               err  |-> Nil]

\* ------------------------------------------------------------------ state
VARIABLES
    db,       \* sql.DB: the committed rows of the table
    tx,       \* handle -> the *sql.Tx inside the mySQLtx: state, rows written,
              \* and the error the server gave to the call that closed it
    nextTx,   \* number of handles Begin has returned
    stmts,    \* the statements Prepare has returned
    pc,       \* position of vsql.Txn: "idle", "body", "done", "panicked"
    wtx,      \* the handle vsql.Txn passed to the body (0: none)
    snap,     \* the committed rows when vsql.Txn called Begin
    issued,   \* the finalizing calls vsql.Txn made on its handle
    body,     \* how the body ended: "returned" (commit, err) or "panicked"
    ret,      \* what vsql.Txn handed back: error, panic value
    outside,  \* a write reached the table from outside wtx since vsql.Txn's Begin
    res,      \* outcome of the last call on a handle or a statement
    rq,       \* the query a caller renders again and again
    twin      \* outcome of the last call that the caller of a transaction
              \* handle also made on the connection handle

vars == <<db, tx, nextTx, stmts, pc, wtx, snap, issued, body, ret, outside, res, rq, twin>>

Handles == 1..MaxTx

\* the states of a *sql.Tx behind a handle: "unused" (no Begin yet), "nil"
\* (BeginTx failed, the pointer is nil), and the three of the life cycle
Terminal == {"Committed", "RolledBack"}

\* a mySQLtx nobody has been given yet
Unused == [st |-> "unused", writes |-> <<>>, ferr |-> Nil]

\* what the connection handle stands on: the pool, never a transaction
Pool == [st |-> "pool", writes |-> <<>>, ferr |-> Nil]

\* nothing was handed to the backend
NoSent == [text |-> <<>>, args |-> <<>>]

NoBody == [kind |-> "none", commit |-> FALSE, err |-> Nil]
NoRet  == [err |-> Nil, panic |-> NoPanic]
NoRes  == [op |-> "none", h |-> 0, st0 |-> "unused", bound |-> TRUE, err |-> Nil,
           berr |-> Nil, panic |-> NoPanic, io |-> FALSE, changed |-> FALSE,
           read |-> 0, s |-> 0, sent |-> NoSent]

\* rows written through the handles that are still open
RECURSIVE PendingRows(_)
PendingRows(hs) ==
    IF hs = {} THEN 0
    ELSE LET h == CHOOSE x \in hs : TRUE IN
         (IF tx[h].st = "Active" THEN Len(tx[h].writes) ELSE 0)
             + PendingRows(hs \ {h})

\* rows held by the table and by every open transaction
RowCount == Len(db) + PendingRows(Handles)

Init ==
    /\ db = <<>>
    /\ tx = [h \in Handles |-> Unused]
    /\ nextTx = 0
    /\ stmts = <<>>
    /\ pc = "idle"
    /\ wtx = 0
    /\ snap = <<>>
    /\ issued = <<>>
    /\ body = NoBody
    /\ ret = NoRet
    /\ outside = FALSE
    /\ res = NoRes
    /\ rq = NoQuery
    /\ twin = NoRes

\* ------------------------------------------------------- backend: sql.Tx
\* An outcome is what one call leaves behind: the *sql.Tx after the call,
\* the rows it made durable, the error or panic it ended with, whether the
\* call reached the server (io) and the rows it read.
\* berr is the error the backend call itself returned, sent the text and
\* the arguments the backend was handed.
Outcome(t, applied, err, panic, io, read) ==
    [t |-> t, applied |-> applied, err |-> err, panic |-> panic,
     io |-> io, read |-> read, berr |-> err, sent |-> NoSent]

\* the outcome of a call that was handed text and args
Sent(o, text, args) == [o EXCEPT !.sent = [text |-> text, args |-> args]]

\* the transactions that are open
Open == {h \in Handles : tx[h].st = "Active"}

\* A row: the handle it was written through (0: the connection handle or a
\* statement of it), its value, and the transactions that were open when it
\* was written (for a row written in a transaction, that transaction).
Row(by, v, during) == [by |-> by, v |-> v, during |-> during]

\* number of "?" tokens in a rendered text
RECURSIVE PlaceholderCount(_)
PlaceholderCount(text) ==
    IF text = <<>> THEN 0
    ELSE (IF Head(text) = InsertPlaceholderIntoSQL THEN 1 ELSE 0)
             + PlaceholderCount(Tail(text))

IsInsert(text) == text # <<>> /\ Head(text) = "INSERT"

\* the server runs a rendered text on the reserved connection of a *sql.Tx
\* fail is the error the server or the driver answers the call with (Nil: it
\* serves the call)
sqlTx_run(t, h, text, args, fail, wantRows) ==
    IF t.st = "nil" THEN Outcome(t, <<>>, Nil, PanicNilDeref, FALSE, <<>>)
    ELSE IF t.st # "Active" THEN Outcome(t, <<>>, ErrTxDone, NoPanic, FALSE, <<>>)
    ELSE Sent(IF fail # Nil THEN Outcome(t, <<>>, fail, NoPanic, TRUE, <<>>)
              ELSE IF PlaceholderCount(text) # Len(args)
                   THEN Outcome(t, <<>>, ErrBackend, NoPanic, TRUE, <<>>)
              ELSE IF IsInsert(text)
                   THEN Outcome([t EXCEPT !.writes = Append(@, Row(h, args[1], {h}))],
                                <<>>, Nil, NoPanic, TRUE, <<>>)
              ELSE Outcome(t, <<>>, Nil, NoPanic, TRUE,
                           IF wantRows THEN db \o t.writes ELSE <<>>),
              text, args)

\* (*sql.Tx).QueryContext
sqlTx_QueryContext(t, h, text, args, fail) == sqlTx_run(t, h, text, args, fail, TRUE)

\* (*sql.Tx).ExecContext
sqlTx_ExecContext(t, h, text, args, fail) == sqlTx_run(t, h, text, args, fail, FALSE)

\* (*sql.Tx).PrepareContext
sqlTx_PrepareContext(t, h, text, fail) ==
    IF t.st = "nil" THEN Outcome(t, <<>>, Nil, PanicNilDeref, FALSE, <<>>)
    ELSE IF t.st # "Active" THEN Outcome(t, <<>>, ErrTxDone, NoPanic, FALSE, <<>>)
    ELSE Sent(Outcome(t, <<>>, fail, NoPanic, TRUE, <<>>), text, <<>>)

\* (*sql.Tx).Commit: the first call on an open transaction closes it; when
\* the server refuses, the connection is given up and the rows are lost
sqlTx_Commit(t, fail) ==
    IF t.st = "nil" THEN Outcome(t, <<>>, Nil, PanicNilDeref, FALSE, <<>>)
    ELSE IF t.st # "Active" THEN Outcome(t, <<>>, ErrTxDone, NoPanic, FALSE, <<>>)
    ELSE IF fail # Nil
         THEN Outcome([t EXCEPT !.st = "RolledBack", !.ferr = fail],
                      <<>>, fail, NoPanic, TRUE, <<>>)
    ELSE Outcome([t EXCEPT !.st = "Committed"], t.writes, Nil, NoPanic, TRUE, <<>>)

\* (*sql.Tx).Rollback: the first call on an open transaction closes it
sqlTx_Rollback(t, fail) ==
    IF t.st = "nil" THEN Outcome(t, <<>>, Nil, PanicNilDeref, FALSE, <<>>)
    ELSE IF t.st # "Active" THEN Outcome(t, <<>>, ErrTxDone, NoPanic, FALSE, <<>>)
    ELSE Outcome([t EXCEPT !.st = "RolledBack", !.ferr = fail],
                 <<>>, fail, NoPanic, TRUE, <<>>)

\* (*sql.DB).BeginTx: a *sql.Tx, or nil and an error
sqlDB_BeginTx(fail) ==
    IF fail # Nil THEN [t |-> [Unused EXCEPT !.st = "nil"], err |-> fail]
    ELSE [t |-> [Unused EXCEPT !.st = "Active"], err |-> Nil]

\* ------------------------------------------------------- backend: sql.DB
\* the server runs a rendered text on a connection taken from the pool
\* for the caller by (0: the connection handle or a statement of it)
sqlDB_run(by, text, args, fail, wantRows) ==
    Sent(IF fail # Nil THEN Outcome(Pool, <<>>, fail, NoPanic, TRUE, <<>>)
         ELSE IF PlaceholderCount(text) # Len(args)
              THEN Outcome(Pool, <<>>, ErrBackend, NoPanic, TRUE, <<>>)
         ELSE IF IsInsert(text)
              THEN Outcome(Pool, <<Row(by, args[1], Open)>>, Nil, NoPanic, TRUE, <<>>)
         ELSE Outcome(Pool, <<>>, Nil, NoPanic, TRUE, IF wantRows THEN db ELSE <<>>),
         text, args)

\* (*sql.DB).QueryContext
sqlDB_QueryContext(text, args, fail) == sqlDB_run(0, text, args, fail, TRUE)

\* (*sql.DB).ExecContext
sqlDB_ExecContext(text, args, fail) == sqlDB_run(0, text, args, fail, FALSE)

\* (*sql.DB).PrepareContext
sqlDB_PrepareContext(text, fail) ==
    Sent(Outcome(Pool, <<>>, fail, NoPanic, TRUE, <<>>), text, <<>>)

\* (*sql.DB).PingContext
sqlDB_PingContext(fail) == Outcome(Pool, <<>>, fail, NoPanic, TRUE, <<>>)

\* ----------------------------------------------------- backend: sql.Stmt
\* A statement is [tx, text, closed]: the handle it was prepared on (0: the
\* connection handle), the text of its plan, and whether Close was called.
\* A *sql.Stmt of the pool runs its plan on a connection taken from the pool.
sqlStmt_run(s, args, fail, wantRows) ==
    IF s.closed THEN Outcome(Pool, <<>>, ErrStmtClosed, NoPanic, FALSE, <<>>)
    ELSE sqlDB_run(s.tx, s.text, args, fail, wantRows)

\* (*sql.Stmt).QueryContext
sqlStmt_QueryContext(s, args, fail) == sqlStmt_run(s, args, fail, TRUE)

\* (*sql.Stmt).ExecContext
sqlStmt_ExecContext(s, args, fail) == sqlStmt_run(s, args, fail, FALSE)

\* (*sql.Tx).StmtContext(ctx, stmt) and the call on the statement it
\* returns: a closed transaction gives a statement that answers every call
\* with ErrTxDone, an open one prepares the text again on its reserved
\* connection, also when stmt was closed
sqlTx_StmtContext_QueryContext(t, s, args, fail) ==
    sqlTx_run(t, s.tx, s.text, args, fail, TRUE)

sqlTx_StmtContext_ExecContext(t, s, args, fail) ==
    sqlTx_run(t, s.tx, s.text, args, fail, FALSE)

\* (*sql.Stmt).Close: the first call releases the plan, the later ones do
\* nothing; done says the owning transaction has ended and released it
sqlStmt_Close(s, done, fail) ==
    IF s.closed \/ done THEN Outcome(Pool, <<>>, Nil, NoPanic, FALSE, <<>>)
    ELSE Outcome(Pool, <<>>, fail, NoPanic, TRUE, <<>>)

\* --------------------------------------------------------------- mySQLtx
\* the outcome of a call that ends at the renderer
RenderFailed(t, err) ==
    [Outcome(t, <<>>, err, NoPanic, FALSE, <<>>) EXCEPT !.berr = Nil]

\* Commit that calls the other finalizer
mySQLtx_CommitCallsRollback(t, fail) == sqlTx_Rollback(t, fail)

\* Commit that drops the backend's error, as Begin does
mySQLtx_CommitDropsError(t, fail) == [sqlTx_Commit(t, fail) EXCEPT !.err = Nil]

mySQLtx_Commit(t, fail) == sqlTx_Commit(t, fail)

\* Rollback that never reaches the backend
mySQLtx_RollbackSkipped(t, fail) == Outcome(t, <<>>, Nil, NoPanic, FALSE, <<>>)

\* Rollback that drops the backend's error, as Begin does
mySQLtx_RollbackDropsError(t, fail) == [sqlTx_Rollback(t, fail) EXCEPT !.err = Nil]

\* Rollback that marks the handle rolled back whatever its state
mySQLtx_RollbackUnchecked(t, fail) ==
    [sqlTx_Rollback(t, fail) EXCEPT !.t = IF t.st = "nil" THEN t
                                          ELSE [t EXCEPT !.st = "RolledBack"]]

\* Rollback that calls the other finalizer
mySQLtx_RollbackCommits(t, fail) == sqlTx_Commit(t, fail)

mySQLtx_Rollback(t, fail) == sqlTx_Rollback(t, fail)

\* Query that dispatches to the pool instead of the reserved connection
mySQLtx_QueryOnPool(t, h, q, fail) ==
    LET r == Interpolate(q) IN
    IF r.err # Nil THEN RenderFailed(t, r.err)
    ELSE [sqlDB_QueryContext(r.text, r.args, fail) EXCEPT !.t = t]

\* Query that reports a cancelled call as a success
mySQLtx_QuerySwallowsCancel(t, h, q, fail) ==
    LET r == Interpolate(q) IN
    IF r.err # Nil THEN RenderFailed(t, r.err)
    ELSE [sqlTx_QueryContext(t, h, r.text, r.args, fail)
              EXCEPT !.err = IF @ = ErrCanceled THEN Nil ELSE @]

mySQLtx_Query(t, h, q, fail) ==
    LET r == Interpolate(q) IN
    IF r.err # Nil THEN RenderFailed(t, r.err)
    ELSE sqlTx_QueryContext(t, h, r.text, r.args, fail)

\* Insert that dispatches to the pool instead of the reserved connection
mySQLtx_InsertOnPool(t, h, q, fail) ==
    LET r == Interpolate(q) IN
    IF r.err # Nil THEN RenderFailed(t, r.err)
    ELSE [sqlDB_ExecContext(r.text, r.args, fail) EXCEPT !.t = t]

\* Insert that loses the first of the values
mySQLtx_InsertDropsFirst(t, h, q, fail) ==
    LET r == Interpolate(q) IN
    IF r.err # Nil THEN RenderFailed(t, r.err)
    ELSE sqlTx_ExecContext(t, h, r.text,
                           IF r.args = <<>> THEN <<>> ELSE Tail(r.args), fail)

mySQLtx_Insert(t, h, q, fail) ==
    LET r == Interpolate(q) IN
    IF r.err # Nil THEN RenderFailed(t, r.err)
    ELSE sqlTx_ExecContext(t, h, r.text, r.args, fail)

\* Exec that dispatches to the pool instead of the reserved connection
mySQLtx_ExecOnPool(t, h, q, fail) ==
    LET r == Interpolate(q) IN
    IF r.err # Nil THEN RenderFailed(t, r.err)
    ELSE [sqlDB_ExecContext(r.text, r.args, fail) EXCEPT !.t = t]

mySQLtx_Exec(t, h, q, fail) ==
    LET r == Interpolate(q) IN
    IF r.err # Nil THEN RenderFailed(t, r.err)
    ELSE sqlTx_ExecContext(t, h, r.text, r.args, fail)

mySQLtx_Prepare(t, h, q, fail) == sqlTx_PrepareContext(t, h, SQLQuery(q), fail)

\* ----------------------------------------------------------------- mySQL
\* mySQL.Begin: the handle wraps whatever BeginTx returned
mySQL_Begin(fail) ==
    LET b == sqlDB_BeginTx(fail) IN [t |-> b.t, err |-> Nil, berr |-> b.err]

mySQL_Query(q, fail) ==
    LET r == Interpolate(q) IN
    IF r.err # Nil THEN RenderFailed(Pool, r.err)
    ELSE sqlDB_QueryContext(r.text, r.args, fail)

\* Insert that hands the values over last to first
mySQL_InsertReversed(q, fail) ==
    LET r == Interpolate(q) IN
    IF r.err # Nil THEN RenderFailed(Pool, r.err)
    ELSE sqlDB_ExecContext(r.text,
                           [i \in 1..Len(r.args) |-> r.args[Len(r.args) + 1 - i]],
                           fail)

mySQL_Insert(q, fail) ==
    LET r == Interpolate(q) IN
    IF r.err # Nil THEN RenderFailed(Pool, r.err)
    ELSE sqlDB_ExecContext(r.text, r.args, fail)

mySQL_Exec(q, fail) ==
    LET r == Interpolate(q) IN
    IF r.err # Nil THEN RenderFailed(Pool, r.err)
    ELSE sqlDB_ExecContext(r.text, r.args, fail)

\* Prepare that renders as Query does, bound values included
mySQL_PrepareInterpolates(q, fail) ==
    LET r == Interpolate(q) IN
    IF r.err # Nil THEN RenderFailed(Pool, r.err)
    ELSE sqlDB_PrepareContext(r.text, fail)

mySQL_Prepare(q, fail) == sqlDB_PrepareContext(SQLQuery(q), fail)

mySQL_Ping(fail) == sqlDB_PingContext(fail)

\* -------------------------------------------------------- mysqlStatement
mysqlStatement_Query(s, q, fail) ==
    LET r == Interpolate(q) IN
    IF r.err # Nil THEN RenderFailed(Pool, r.err)
    ELSE sqlStmt_QueryContext(s, r.args, fail)

\* Insert that calls the backend before it looks at the renderer's error
mysqlStatement_InsertUnrendered(s, q, fail) ==
    LET r == Interpolate(q)
        o == sqlStmt_ExecContext(s, r.args, fail)
    IN  IF r.err # Nil THEN [o EXCEPT !.err = r.err] ELSE o

\* Insert that never reaches the table
mysqlStatement_InsertNowhere(s, q, fail) ==
    LET r == Interpolate(q) IN
    IF r.err # Nil THEN RenderFailed(Pool, r.err)
    ELSE [sqlStmt_ExecContext(s, r.args, fail) EXCEPT !.applied = <<>>]

mysqlStatement_Insert(s, q, fail) ==
    LET r == Interpolate(q) IN
    IF r.err # Nil THEN RenderFailed(Pool, r.err)
    ELSE sqlStmt_ExecContext(s, r.args, fail)

\* Exec that runs the text of the parameters, as the handles do
mysqlStatement_ExecRendersText(s, q, fail) ==
    LET r == Interpolate(q) IN
    IF r.err # Nil THEN RenderFailed(Pool, r.err)
    ELSE IF s.closed THEN Outcome(Pool, <<>>, ErrStmtClosed, NoPanic, FALSE, <<>>)
    ELSE sqlDB_run(s.tx, r.text, r.args, fail, FALSE)

mysqlStatement_Exec(s, q, fail) ==
    LET r == Interpolate(q) IN
    IF r.err # Nil THEN RenderFailed(Pool, r.err)
    ELSE sqlStmt_ExecContext(s, r.args, fail)

\* Close that drops the backend's error, as Begin does
mysqlStatement_CloseDropsError(s, fail) ==
    [sqlStmt_Close(s, FALSE, fail) EXCEPT !.err = Nil]

mysqlStatement_Close(s, fail) == sqlStmt_Close(s, FALSE, fail)

\* ------------------------------------------------------ mysqlStatementTx
\* t is the *sql.Tx the statement kept from the Prepare that made it
mysqlStatementTx_Query(s, t, q, fail) ==
    LET r == Interpolate(q) IN
    IF r.err # Nil THEN RenderFailed(t, r.err)
    ELSE sqlTx_StmtContext_QueryContext(t, s, r.args, fail)

\* Insert that runs the plan on the pool instead of the owning transaction
mysqlStatementTx_InsertOnPool(s, t, q, fail) ==
    LET r == Interpolate(q) IN
    IF r.err # Nil THEN RenderFailed(t, r.err)
    ELSE [sqlDB_run(s.tx, s.text, r.args, fail, FALSE) EXCEPT !.t = t]

mysqlStatementTx_Insert(s, t, q, fail) ==
    LET r == Interpolate(q) IN
    IF r.err # Nil THEN RenderFailed(t, r.err)
    ELSE sqlTx_StmtContext_ExecContext(t, s, r.args, fail)

\* Exec that runs the plan on the pool instead of the owning transaction
mysqlStatementTx_ExecOnPool(s, t, q, fail) ==
    LET r == Interpolate(q) IN
    IF r.err # Nil THEN RenderFailed(t, r.err)
    ELSE [sqlDB_run(s.tx, s.text, r.args, fail, FALSE) EXCEPT !.t = t]

mysqlStatementTx_Exec(s, t, q, fail) ==
    LET r == Interpolate(q) IN
    IF r.err # Nil THEN RenderFailed(t, r.err)
    ELSE sqlTx_StmtContext_ExecContext(t, s, r.args, fail)

\* Close that ends the transaction the statement was prepared on
mysqlStatementTx_CloseRollsBack(s, t, fail) ==
    [sqlTx_Rollback(t, fail) EXCEPT !.io = ~s.closed]

mysqlStatementTx_Close(s, t, fail) ==
    [sqlStmt_Close(s, t.st # "Active", fail) EXCEPT !.t = t]

\* -------------------------------------------------------------- vsql.Txn
\* The wrapper after the body returned (commit, err): Rollback when the body
\* failed or did not ask for the commit, Commit otherwise. The error of the
\* Rollback is dropped, the error of the Commit is the wrapper's.
TxnFinish(t, commit, err, fail) ==
    LET rollback == err # Nil \/ ~commit
        o == IF rollback THEN mySQLtx_Rollback(t, fail) ELSE mySQLtx_Commit(t, fail)
    IN  [o |-> o,
         issued |-> <<IF rollback THEN "Rollback" ELSE "Commit">>,
         ret |-> IF o.panic # NoPanic THEN [err |-> Nil, panic |-> o.panic]
                 ELSE [err |-> IF rollback THEN err ELSE o.err, panic |-> NoPanic]]

\* The wrapper's deferred guard after the body panicked with v: Rollback, then
\* panic(v) again. A panic inside the Rollback replaces v.
TxnRecover(t, v, fail) ==
    LET o == mySQLtx_Rollback(t, fail)
    IN  [o |-> o,
         issued |-> <<"Rollback">>,
         ret |-> [err |-> Nil, panic |-> IF o.panic # NoPanic THEN o.panic ELSE v]]

\* ---------------------------------------------------------------- actions
\* the outcome of a call as the caller sees it
Seen(op, h, q, o) ==
    LET t == IF h = 0 THEN Pool ELSE tx[h] IN
    [op |-> op, h |-> h, st0 |-> t.st, bound |-> (Interpolate(q).err = Nil),
     err |-> o.err, berr |-> o.berr, panic |-> o.panic, io |-> o.io,
     changed |-> (o.applied # <<>> \/ o.t.writes # t.writes),
     read |-> Len(o.read), s |-> 0, sent |-> o.sent]

WrapperVars == <<pc, wtx, snap, issued, body, ret, outside>>

\* what the backend answers a call with: it serves it, or it fails it
Failures == {Nil, ErrBackend}

\* a handle a caller holds
Held(h) == h \in 1..nextTx

\* the backend can fail a call only when the call reaches it
Fails(h) == IF Held(h) /\ tx[h].st = "Active" THEN Failures ELSE {Nil}

\* what a call on handle h with outcome o does to the handle and the table
TxStep(h, o) ==
    /\ (o.t.writes # tx[h].writes => RowCount < MaxRows)
    /\ tx' = [tx EXCEPT ![h] = o.t]
    /\ db' = db \o o.applied
    /\ UNCHANGED nextTx

\* what a call on the connection handle with outcome o does to the table
ConnStep(o) ==
    /\ (o.applied # <<>> => RowCount < MaxRows)
    /\ db' = db \o o.applied
    /\ UNCHANGED <<tx, nextTx>>

\* the statement Prepare returns for query q on handle h (0: the pool)
Prepared(h, q, o) ==
    LET made == o.err = Nil /\ o.panic = NoPanic IN
    /\ (made => Len(stmts) < MaxStmt)
    /\ stmts' = IF made
                THEN Append(stmts, [tx |-> h, text |-> SQLQuery(q), closed |-> FALSE])
                ELSE stmts

\* ---- calls made directly on the handles, each outcome kept in res
Begin(fail) ==
    /\ nextTx < MaxTx
    /\ LET h == nextTx + 1
           b == mySQL_Begin(fail)
       IN  /\ nextTx' = h
           /\ tx' = [tx EXCEPT ![h] = b.t]
           /\ res' = [NoRes EXCEPT !.op = "Begin", !.h = h, !.err = b.err,
                                    !.berr = b.berr, !.io = TRUE]
    /\ UNCHANGED <<db, stmts>>
    /\ UNCHANGED WrapperVars
    /\ UNCHANGED <<rq, twin>>

Commit(h, fail) ==
    /\ Held(h)
    /\ LET o == mySQLtx_Commit(tx[h], fail)
       IN  TxStep(h, o) /\ res' = Seen("Commit", h, NoQuery, o)
    /\ UNCHANGED stmts
    /\ UNCHANGED WrapperVars
    /\ UNCHANGED <<rq, twin>>

Rollback(h, fail) ==
    /\ Held(h)
    /\ LET o == mySQLtx_Rollback(tx[h], fail)
       IN  TxStep(h, o) /\ res' = Seen("Rollback", h, NoQuery, o)
    /\ UNCHANGED stmts
    /\ UNCHANGED WrapperVars
    /\ UNCHANGED <<rq, twin>>

TxQuery(h, q, fail) ==
    /\ Held(h)
    /\ LET o == mySQLtx_Query(tx[h], h, q, fail)
       IN  TxStep(h, o) /\ res' = Seen("Query", h, q, o)
    /\ UNCHANGED stmts
    /\ UNCHANGED WrapperVars
    /\ UNCHANGED <<rq, twin>>

TxInsert(h, q, fail) ==
    /\ Held(h)
    /\ LET o == mySQLtx_Insert(tx[h], h, q, fail)
       IN  TxStep(h, o) /\ res' = Seen("Insert", h, q, o)
    /\ UNCHANGED stmts
    /\ UNCHANGED WrapperVars
    /\ UNCHANGED <<rq, twin>>

TxExec(h, q, fail) ==
    /\ Held(h)
    /\ LET o == mySQLtx_Exec(tx[h], h, q, fail)
       IN  TxStep(h, o) /\ res' = Seen("Exec", h, q, o)
    /\ UNCHANGED stmts
    /\ UNCHANGED WrapperVars
    /\ UNCHANGED <<rq, twin>>

TxPrepare(h, q, fail) ==
    /\ Held(h)
    /\ LET o == mySQLtx_Prepare(tx[h], h, q, fail)
       IN  TxStep(h, o) /\ Prepared(h, q, o) /\ res' = Seen("Prepare", h, q, o)
    /\ UNCHANGED WrapperVars
    /\ UNCHANGED <<rq, twin>>

ConnQuery(q, fail) ==
    /\ LET o == mySQL_Query(q, fail)
       IN  ConnStep(o) /\ res' = Seen("Query", 0, q, o)
    /\ UNCHANGED stmts
    /\ UNCHANGED WrapperVars
    /\ UNCHANGED <<rq, twin>>

ConnInsert(q, fail) ==
    /\ LET o == mySQL_Insert(q, fail)
       IN  ConnStep(o) /\ res' = Seen("Insert", 0, q, o)
    /\ UNCHANGED stmts
    /\ UNCHANGED WrapperVars
    /\ UNCHANGED <<rq, twin>>

ConnExec(q, fail) ==
    /\ LET o == mySQL_Exec(q, fail)
       IN  ConnStep(o) /\ res' = Seen("Exec", 0, q, o)
    /\ UNCHANGED stmts
    /\ UNCHANGED WrapperVars
    /\ UNCHANGED <<rq, twin>>

ConnPrepare(q, fail) ==
    /\ LET o == mySQL_Prepare(q, fail)
       IN  ConnStep(o) /\ Prepared(0, q, o) /\ res' = Seen("Prepare", 0, q, o)
    /\ UNCHANGED WrapperVars
    /\ UNCHANGED <<rq, twin>>

Ping(fail) ==
    /\ LET o == mySQL_Ping(fail)
       IN  ConnStep(o) /\ res' = Seen("Ping", 0, NoQuery, o)
    /\ UNCHANGED stmts
    /\ UNCHANGED WrapperVars
    /\ UNCHANGED <<rq, twin>>

\* ---- calls on the statements Prepare returned
\* the statements of the connection handle and those of the transactions
ConnStmts == {i \in 1..Len(stmts) : stmts[i].tx = 0}
TxStmts == {i \in 1..Len(stmts) : stmts[i].tx # 0}

\* the backend can fail a call on a statement only when the call reaches it
StmtFails(i) ==
    IF stmts[i].tx # 0 THEN Fails(stmts[i].tx)
    ELSE IF stmts[i].closed THEN {Nil} ELSE Failures

\* the outcome of a call on statement i as the caller sees it
SeenStmt(op, i, q, o) == [Seen(op, stmts[i].tx, q, o) EXCEPT !.s = i]

StmtQuery(i, q, fail) ==
    /\ i \in ConnStmts
    /\ LET o == mysqlStatement_Query(stmts[i], q, fail)
       IN  ConnStep(o) /\ res' = SeenStmt("Query", i, q, o)
    /\ UNCHANGED stmts
    /\ UNCHANGED WrapperVars
    /\ UNCHANGED <<rq, twin>>

StmtInsert(i, q, fail) ==
    /\ i \in ConnStmts
    /\ LET o == mysqlStatement_Insert(stmts[i], q, fail)
       IN  ConnStep(o) /\ res' = SeenStmt("Insert", i, q, o)
    /\ UNCHANGED stmts
    /\ UNCHANGED WrapperVars
    /\ UNCHANGED <<rq, twin>>

StmtExec(i, q, fail) ==
    /\ i \in ConnStmts
    /\ LET o == mysqlStatement_Exec(stmts[i], q, fail)
       IN  ConnStep(o) /\ res' = SeenStmt("Exec", i, q, o)
    /\ UNCHANGED stmts
    /\ UNCHANGED WrapperVars
    /\ UNCHANGED <<rq, twin>>

StmtClose(i, fail) ==
    /\ i \in ConnStmts
    /\ LET o == mysqlStatement_Close(stmts[i], fail)
       IN  ConnStep(o) /\ res' = SeenStmt("Close", i, NoQuery, o)
    /\ stmts' = [stmts EXCEPT ![i].closed = TRUE]
    /\ UNCHANGED WrapperVars
    /\ UNCHANGED <<rq, twin>>

StmtTxQuery(i, q, fail) ==
    /\ i \in TxStmts
    /\ LET h == stmts[i].tx
           o == mysqlStatementTx_Query(stmts[i], tx[h], q, fail)
       IN  TxStep(h, o) /\ res' = SeenStmt("Query", i, q, o)
    /\ UNCHANGED stmts
    /\ UNCHANGED WrapperVars
    /\ UNCHANGED <<rq, twin>>

StmtTxInsert(i, q, fail) ==
    /\ i \in TxStmts
    /\ LET h == stmts[i].tx
           o == mysqlStatementTx_Insert(stmts[i], tx[h], q, fail)
       IN  TxStep(h, o) /\ res' = SeenStmt("Insert", i, q, o)
    /\ UNCHANGED stmts
    /\ UNCHANGED WrapperVars
    /\ UNCHANGED <<rq, twin>>

StmtTxExec(i, q, fail) ==
    /\ i \in TxStmts
    /\ LET h == stmts[i].tx
           o == mysqlStatementTx_Exec(stmts[i], tx[h], q, fail)
       IN  TxStep(h, o) /\ res' = SeenStmt("Exec", i, q, o)
    /\ UNCHANGED stmts
    /\ UNCHANGED WrapperVars
    /\ UNCHANGED <<rq, twin>>

StmtTxClose(i, fail) ==
    /\ i \in TxStmts
    /\ LET h == stmts[i].tx
           o == mysqlStatementTx_Close(stmts[i], tx[h], fail)
       IN  TxStep(h, o) /\ res' = SeenStmt("Close", i, NoQuery, o)
    /\ stmts' = [stmts EXCEPT ![i].closed = TRUE]
    /\ UNCHANGED WrapperVars
    /\ UNCHANGED <<rq, twin>>

Next ==
    \/ \E fail \in Failures : Begin(fail)
    \/ \E h \in Handles : \E fail \in Fails(h) : Commit(h, fail)
    \/ \E h \in Handles : \E fail \in Fails(h) : Rollback(h, fail)
    \/ \E h \in Handles, q \in Queries : \E fail \in Fails(h) : TxQuery(h, q, fail)
    \/ \E h \in Handles, q \in Queries : \E fail \in Fails(h) : TxInsert(h, q, fail)
    \/ \E h \in Handles, q \in Queries : \E fail \in Fails(h) : TxExec(h, q, fail)
    \/ \E h \in Handles, q \in PrepareQueries : \E fail \in Fails(h) : TxPrepare(h, q, fail)

\* the transaction handles used directly, by callers that finalize them
\* themselves
Spec == Init /\ [][Next]_vars

NextConn ==
    \/ \E q \in Queries, fail \in Failures : ConnQuery(q, fail)
    \/ \E q \in Queries, fail \in Failures : ConnInsert(q, fail)
    \/ \E q \in Queries, fail \in Failures : ConnExec(q, fail)

\* the connection handle used directly
SpecConn == Init /\ [][NextConn]_vars

NextStmtCalls ==
    \/ \E i \in ConnStmts, q \in StmtParams : \E fail \in StmtFails(i) : StmtQuery(i, q, fail)
    \/ \E i \in ConnStmts, q \in StmtParams : \E fail \in StmtFails(i) : StmtInsert(i, q, fail)
    \/ \E i \in ConnStmts, q \in StmtParams : \E fail \in StmtFails(i) : StmtExec(i, q, fail)
    \/ \E i \in ConnStmts : \E fail \in StmtFails(i) : StmtClose(i, fail)
    \/ \E i \in TxStmts, q \in StmtParams : \E fail \in StmtFails(i) : StmtTxQuery(i, q, fail)
    \/ \E i \in TxStmts, q \in StmtParams : \E fail \in StmtFails(i) : StmtTxInsert(i, q, fail)
    \/ \E i \in TxStmts, q \in StmtParams : \E fail \in StmtFails(i) : StmtTxExec(i, q, fail)
    \/ \E i \in TxStmts : \E fail \in StmtFails(i) : StmtTxClose(i, fail)

NextStmt ==
    \/ \E fail \in Failures : Begin(fail)
    \/ \E h \in Handles : \E fail \in Fails(h) : Commit(h, fail)
    \/ \E h \in Handles : \E fail \in Fails(h) : Rollback(h, fail)
    \/ \E h \in Handles, q \in PrepareQueries : \E fail \in Fails(h) : TxPrepare(h, q, fail)
    \/ \E q \in PrepareQueries, fail \in Failures : ConnPrepare(q, fail)
    \/ \E fail \in Failures : ConnQuery(CountQuery, fail)
    \/ \E i \in ConnStmts, q \in StmtParams : \E fail \in StmtFails(i) : StmtInsert(i, q, fail)
    \/ \E i \in TxStmts, q \in StmtParams : \E fail \in StmtFails(i) : StmtTxQuery(i, q, fail)
    \/ \E i \in TxStmts, q \in StmtParams : \E fail \in StmtFails(i) : StmtTxInsert(i, q, fail)
    \/ \E i \in TxStmts, q \in StmtParams : \E fail \in StmtFails(i) : StmtTxExec(i, q, fail)

\* the statements of both kinds, the transactions they run in or beside, and
\* the reads of the table through the connection handle
SpecStmt == Init /\ [][NextStmt]_vars

NextAll ==
    \/ Next
    \/ NextConn
    \/ \E q \in PrepareQueries, fail \in Failures : ConnPrepare(q, fail)
    \/ \E fail \in Failures : Ping(fail)
    \/ NextStmtCalls

\* every call of every handle and statement
SpecAll == Init /\ [][NextAll]_vars

\* a caller that holds one query and hands it to the calls of the handles
InitRender ==
    /\ db = <<>>
    /\ tx = [h \in Handles |-> Unused]
    /\ nextTx = 0
    /\ stmts = <<>>
    /\ pc = "idle"
    /\ wtx = 0
    /\ snap = <<>>
    /\ issued = <<>>
    /\ body = NoBody
    /\ ret = NoRet
    /\ outside = FALSE
    /\ res = NoRes
    /\ rq \in RenderQueries
    /\ twin = NoRes

NextRender ==
    \/ \E fail \in Failures : Begin(fail)
    \/ \E fail \in Failures : ConnQuery(rq, fail)
    \/ \E fail \in Failures : ConnInsert(rq, fail)
    \/ \E fail \in Failures : ConnExec(rq, fail)
    \/ \E h \in Handles : \E fail \in Fails(h) : TxQuery(h, rq, fail)
    \/ \E h \in Handles : \E fail \in Fails(h) : TxInsert(h, rq, fail)
    \/ \E h \in Handles : \E fail \in Fails(h) : TxExec(h, rq, fail)

\* the rendering of one query by every call that renders
SpecRender == InitRender /\ [][NextRender]_vars

NextClose ==
    \/ \E fail \in Failures : Begin(fail)
    \/ \E h \in Handles : \E fail \in Fails(h) : Commit(h, fail)
    \/ \E h \in Handles : \E fail \in Fails(h) : Rollback(h, fail)
    \/ \E h \in Handles, q \in PrepareQueries : \E fail \in Fails(h) : TxPrepare(h, q, fail)
    \/ \E i \in TxStmts : \E fail \in StmtFails(i) : StmtTxQuery(i, InsertParam, fail)
    \/ \E i \in TxStmts : \E fail \in StmtFails(i) : StmtTxInsert(i, InsertParam, fail)
    \/ \E i \in TxStmts : \E fail \in StmtFails(i) : StmtTxExec(i, InsertParam, fail)
    \/ \E i \in TxStmts : \E fail \in StmtFails(i) : StmtTxClose(i, fail)

\* the statements of the transaction handles from Prepare to Close and
\* after, and the transactions they were prepared on
SpecClose == Init /\ [][NextClose]_vars

\* a caller that holds one parameter object and hands it to the calls of the
\* statements
InitStmtRender ==
    /\ db = <<>>
    /\ tx = [h \in Handles |-> Unused]
    /\ nextTx = 0
    /\ stmts = <<>>
    /\ pc = "idle"
    /\ wtx = 0
    /\ snap = <<>>
    /\ issued = <<>>
    /\ body = NoBody
    /\ ret = NoRet
    /\ outside = FALSE
    /\ res = NoRes
    /\ rq \in StmtRenderQueries
    /\ twin = NoRes

NextStmtRender ==
    \/ \E fail \in Failures : Begin(fail)
    \/ \E h \in Handles, q \in PrepareQueries : \E fail \in Fails(h) : TxPrepare(h, q, fail)
    \/ \E q \in PrepareQueries, fail \in Failures : ConnPrepare(q, fail)
    \/ \E i \in ConnStmts : \E fail \in StmtFails(i) : StmtQuery(i, rq, fail)
    \/ \E i \in ConnStmts : \E fail \in StmtFails(i) : StmtInsert(i, rq, fail)
    \/ \E i \in ConnStmts : \E fail \in StmtFails(i) : StmtExec(i, rq, fail)
    \/ \E i \in TxStmts : \E fail \in StmtFails(i) : StmtTxQuery(i, rq, fail)
    \/ \E i \in TxStmts : \E fail \in StmtFails(i) : StmtTxInsert(i, rq, fail)
    \/ \E i \in TxStmts : \E fail \in StmtFails(i) : StmtTxExec(i, rq, fail)

\* the use of one parameter object by every call of a statement
SpecStmtRender == InitStmtRender /\ [][NextStmtRender]_vars

\* ---- vsql.Txn and the calls of its body
\* vsql.Txn up to the call of the body: Begin, and the body only when Begin
\* reported no error
TxnBegin(fail) ==
    /\ pc # "body"
    /\ nextTx < MaxTx
    /\ LET h == nextTx + 1
           b == mySQL_Begin(fail)
       IN  /\ nextTx' = h
           /\ tx' = [tx EXCEPT ![h] = b.t]
           /\ pc' = IF b.err # Nil THEN "done" ELSE "body"
           /\ wtx' = h
           /\ ret' = [err |-> b.err, panic |-> NoPanic]
    /\ snap' = db
    /\ issued' = <<>>
    /\ body' = NoBody
    /\ outside' = FALSE
    /\ res' = NoRes
    /\ UNCHANGED <<db, stmts>>
    /\ UNCHANGED <<rq, twin>>

\* the body calls Query, Insert, Exec or Prepare on the handle it was given
BodyQuery(q, fail) ==
    /\ pc = "body"
    /\ TxStep(wtx, mySQLtx_Query(tx[wtx], wtx, q, fail))
    /\ UNCHANGED <<stmts, res>>
    /\ UNCHANGED WrapperVars
    /\ UNCHANGED <<rq, twin>>

BodyInsert(q, fail) ==
    /\ pc = "body"
    /\ TxStep(wtx, mySQLtx_Insert(tx[wtx], wtx, q, fail))
    /\ UNCHANGED <<stmts, res>>
    /\ UNCHANGED WrapperVars
    /\ UNCHANGED <<rq, twin>>

BodyExec(q, fail) ==
    /\ pc = "body"
    /\ TxStep(wtx, mySQLtx_Exec(tx[wtx], wtx, q, fail))
    /\ UNCHANGED <<stmts, res>>
    /\ UNCHANGED WrapperVars
    /\ UNCHANGED <<rq, twin>>

BodyPrepare(q, fail) ==
    /\ pc = "body"
    /\ LET o == mySQLtx_Prepare(tx[wtx], wtx, q, fail)
       IN  TxStep(wtx, o) /\ Prepared(wtx, q, o)
    /\ UNCHANGED res
    /\ UNCHANGED WrapperVars
    /\ UNCHANGED <<rq, twin>>

\* the body calls Query, Insert or Exec with a context that is cancelled
\* while the backend works on the call; the outcome is kept for the body
BodyCancelled(op, q) ==
    /\ pc = "body"
    /\ tx[wtx].st = "Active"
    /\ LET o == CASE op = "Query"  -> mySQLtx_Query(tx[wtx], wtx, q, ErrCanceled)
                  [] op = "Insert" -> mySQLtx_Insert(tx[wtx], wtx, q, ErrCanceled)
                  [] op = "Exec"   -> mySQLtx_Exec(tx[wtx], wtx, q, ErrCanceled)
       IN  TxStep(wtx, o) /\ res' = Seen(op, wtx, q, o)
    /\ UNCHANGED stmts
    /\ UNCHANGED WrapperVars
    /\ UNCHANGED <<rq, twin>>

\* the errors a body can return: none, one of its own, or the cancellation
\* error a call gave it
BodyErrors ==
    {Nil, ErrBody} \cup (IF res.err = ErrCanceled THEN {ErrCanceled} ELSE {})

\* somebody inserts through the connection handle while vsql.Txn runs or
\* after it has left
OutsideInsert(q, fail) ==
    /\ pc # "idle"
    /\ LET o == mySQL_Insert(q, fail)
       IN  ConnStep(o) /\ outside' = (outside \/ o.applied # <<>>)
    /\ UNCHANGED <<stmts, res, pc, wtx, snap, issued, body, ret>>
    /\ UNCHANGED <<rq, twin>>

\* the body returns (commit, err) and vsql.Txn finishes
TxnReturn(commit, err, fail) ==
    /\ pc = "body"
    /\ LET f == TxnFinish(tx[wtx], commit, err, fail)
       IN  /\ tx' = [tx EXCEPT ![wtx] = f.o.t]
           /\ db' = db \o f.o.applied
           /\ issued' = f.issued
           /\ ret' = f.ret
           /\ pc' = IF f.ret.panic # NoPanic THEN "panicked" ELSE "done"
    /\ body' = [kind |-> "returned", commit |-> commit, err |-> err]
    /\ UNCHANGED <<nextTx, stmts, wtx, snap, outside, res>>
    /\ UNCHANGED <<rq, twin>>

\* the body panics and vsql.Txn's guard runs
TxnPanic(fail) ==
    /\ pc = "body"
    /\ LET f == TxnRecover(tx[wtx], PanicBody, fail)
       IN  /\ tx' = [tx EXCEPT ![wtx] = f.o.t]
           /\ db' = db \o f.o.applied
           /\ issued' = f.issued
           /\ ret' = f.ret
    /\ pc' = "panicked"
    /\ body' = [NoBody EXCEPT !.kind = "panicked"]
    /\ UNCHANGED <<nextTx, stmts, wtx, snap, outside, res>>
    /\ UNCHANGED <<rq, twin>>

NextTxn ==
    \/ \E fail \in Failures : TxnBegin(fail)
    \/ \E q \in Queries : \E fail \in Fails(wtx) : BodyQuery(q, fail)
    \/ \E q \in Queries : \E fail \in Fails(wtx) : BodyInsert(q, fail)
    \/ \E q \in Queries : \E fail \in Fails(wtx) : BodyExec(q, fail)
    \/ \E q \in PrepareQueries : \E fail \in Fails(wtx) : BodyPrepare(q, fail)
    \/ \E q \in Queries, fail \in Failures : OutsideInsert(q, fail)
    \/ \E op \in {"Query", "Insert", "Exec"} : BodyCancelled(op, CountQuery)
    \/ \E commit \in BOOLEAN, err \in BodyErrors : \E fail \in Fails(wtx) :
           TxnReturn(commit, err, fail)
    \/ \E fail \in Fails(wtx) : TxnPanic(fail)

\* the handles driven by vsql.Txn
SpecTxn == Init /\ [][NextTxn]_vars

\* ---- the same call on both handles
\* A caller runs a function once on the connection handle and once on a
\* transaction handle: each call of the function is made on both, with the
\* same query and the same answer of the backend. h is the transaction
\* handle, oc and ot the outcomes on the connection and on h. The caller
\* uses the handle Begin gave last, stops when its transaction has ended,
\* and begins the next transaction only then; each run writes at most
\* MaxRows rows.
PairStep(op, h, q, oc, ot) ==
    /\ h = nextTx
    /\ tx[h].st \notin Terminal
    /\ (ot.t.writes # tx[h].writes => Len(tx[h].writes) < MaxRows)
    /\ (oc.applied # <<>> =>
           Len(SelectSeq(db, LAMBDA r : r.by = 0 /\ r.during = Open)) < MaxRows)
    /\ tx' = [tx EXCEPT ![h] = ot.t]
    /\ db' = (db \o oc.applied) \o ot.applied
    /\ res' = Seen(op, h, q, ot)
    /\ twin' = Seen(op, 0, q, oc)
    /\ UNCHANGED nextTx
    /\ UNCHANGED WrapperVars
    /\ UNCHANGED rq

PairQuery(h, q, fail) ==
    /\ PairStep("Query", h, q, mySQL_Query(q, fail), mySQLtx_Query(tx[h], h, q, fail))
    /\ UNCHANGED stmts

PairInsert(h, q, fail) ==
    /\ PairStep("Insert", h, q, mySQL_Insert(q, fail), mySQLtx_Insert(tx[h], h, q, fail))
    /\ UNCHANGED stmts

PairExec(h, q, fail) ==
    /\ PairStep("Exec", h, q, mySQL_Exec(q, fail), mySQLtx_Exec(tx[h], h, q, fail))
    /\ UNCHANGED stmts

PairPrepare(h, q, fail) ==
    /\ LET oc == mySQL_Prepare(q, fail)
           ot == mySQLtx_Prepare(tx[h], h, q, fail)
           made(o) == o.err = Nil /\ o.panic = NoPanic
           new == (IF made(oc) THEN <<[tx |-> 0, text |-> oc.sent.text, closed |-> FALSE]>>
                   ELSE <<>>)
                  \o (IF made(ot) THEN <<[tx |-> h, text |-> ot.sent.text, closed |-> FALSE]>>
                      ELSE <<>>)
       IN  /\ PairStep("Prepare", h, q, oc, ot)
           /\ Len(stmts) < MaxStmt
           /\ stmts' = stmts \o new

NextPair ==
    \/ \E fail \in Failures : Open = {} /\ Begin(fail)
    \/ \E h \in Handles : \E fail \in Fails(h) : Commit(h, fail)
    \/ \E h \in Handles, fail \in Failures : PairQuery(h, CountQuery, fail)
    \/ \E h \in Handles, q \in PairQueries, fail \in Failures : PairInsert(h, q, fail)
    \/ \E h \in Handles, q \in PairQueries, fail \in Failures : PairExec(h, q, fail)
    \/ \E h \in Handles, q \in PrepareQueries, fail \in Failures : PairPrepare(h, q, fail)

\* one function run on the connection handle and on a transaction handle
\* that is committed afterwards
SpecPair == Init /\ [][NextPair]_vars

TypeOK ==
    /\ nextTx \in 0..MaxTx
    /\ pc \in {"idle", "body", "done", "panicked"}
    /\ \A h \in Handles : tx[h].st \in {"unused", "nil", "Active", "Committed", "RolledBack"}
    /\ RowCount <= MaxRows
    /\ Len(stmts) <= MaxStmt

\* ----------------------------------------------------------- properties
\* vsql.Txn has left, after its body returned or panicked
Exited == pc \in {"done", "panicked"} /\ body.kind # "none"

Returned(commit, err) ==
    Exited /\ body.kind = "returned" /\ body.commit = commit /\ body.err = err

\* the committed rows that were written through handle h
RowsBy(h) == SelectSeq(db, LAMBDA r : r.by = h)

\* the capability calls of a handle
Capabilities == {"Query", "Insert", "Exec", "Prepare"}

\* C1: when the body returns (false, nil), vsql.Txn issues Rollback, returns
\* nil, and the table is what it was before Begin: no row of the transaction
\* is in it, and nothing else changed unless somebody wrote from outside.
C1_NoCommitLeavesStore ==
    Returned(FALSE, Nil) =>
        /\ pc = "done"
        /\ issued = <<"Rollback">>
        /\ ret = NoRet
        /\ RowsBy(wtx) = <<>>
        /\ (~outside => db = snap)

C3_ErrorRollsBack ==
    \A commit \in BOOLEAN :
        Returned(commit, ErrBody) =>
            /\ pc = "done"
            /\ issued = <<"Rollback">>
            /\ ret = [err |-> ErrBody, panic |-> NoPanic]

\* C4: when the body panics, vsql.Txn issues Rollback, never Commit, does not
\* return normally, and its caller sees the body's panic value.
C4_PanicRollsBack ==
    (Exited /\ body.kind = "panicked") =>
        /\ pc = "panicked"
        /\ issued = <<"Rollback">>
        /\ ret.panic = PanicBody

\* C5: on every exit of vsql.Txn after a Begin that opened a transaction,
\* exactly one of Commit and Rollback was issued and the handle is no longer
\* Active.
C5_ExactlyOneFinalizer ==
    (Exited /\ tx[wtx].st # "nil") =>
        /\ Len(issued) = 1
        /\ issued[1] \in {"Commit", "Rollback"}
        /\ tx[wtx].st \in Terminal

C5_Witness ==
    /\ Exited /\ body.kind = "panicked"
    /\ issued = <<"Rollback">>
    /\ tx[wtx].st = "RolledBack"

\* C6: when the body returns (true, nil), vsql.Txn returns the error the
\* backend gave to Commit: that error when the Commit failed, nil when it
\* succeeded.
C6_CommitErrorReturned ==
    (Returned(TRUE, Nil) /\ pc = "done") =>
        /\ ret.err = tx[wtx].ferr
        /\ (tx[wtx].st = "Committed" => ret.err = Nil)
        /\ (tx[wtx].st = "RolledBack" => ret.err = ErrBackend)

C6_Witness ==
    /\ Returned(TRUE, Nil) /\ pc = "done"
    /\ issued = <<"Commit">>
    /\ tx[wtx].ferr = ErrBackend
    /\ ret.err = ErrBackend

\* C7: when the body returns an error or commit = false, vsql.Txn returns the
\* body's error (nil when there was none), whatever the Rollback call did.
C7_RollbackPathReturnsBodyErr ==
    \A commit \in BOOLEAN, err \in {Nil, ErrBody} :
        (Returned(commit, err) /\ (err # Nil \/ ~commit)) =>
            /\ pc = "done"
            /\ ret = [err |-> err, panic |-> NoPanic]

\* C8: a handle leaves Active only for Committed or RolledBack, and a handle
\* that is Committed or RolledBack keeps that state through every call; only
\* Begin makes a handle Active.
C8_TerminalIsFinal ==
    [][\A h \in Handles :
          /\ (tx[h].st \in Terminal => tx'[h].st = tx[h].st)
          /\ (tx[h].st = "Active" => tx'[h].st \in {"Active"} \cup Terminal)
          /\ (tx'[h].st = "Active" => tx[h].st \in {"Active", "unused"})]_vars

C8_Witness ==
    /\ res.op = "Rollback" /\ res.h # 0
    /\ res.st0 = "Committed"
    /\ tx[res.h].st = "Committed"

\* C9: Commit and Rollback on a handle that is already Committed or RolledBack
\* return an error and change nothing in the table.
C9_FinalizeTwiceFails ==
    (res.op \in {"Commit", "Rollback"} /\ res.st0 \in Terminal) =>
        /\ res.err # Nil
        /\ res.panic = NoPanic
        /\ ~res.changed

C9_Witness ==
    /\ res.op = "Rollback" /\ res.st0 = "RolledBack"
    /\ res.err = ErrTxDone

\* C10 as stated: every capability call on a handle that is Committed or
\* RolledBack returns the transaction-closed error and neither reads nor
\* writes.
C10_ClosedError ==
    (res.op \in Capabilities /\ res.h # 0 /\ res.st0 \in Terminal) =>
        /\ res.err = ErrTxDone
        /\ ~res.io
        /\ ~res.changed

\* C10 amended: every capability call on a handle that is Committed or
\* RolledBack returns an error and neither reads nor writes; the error is the
\* renderer's missing-binding error when Query, Insert or Exec gets a query
\* with an unbound named placeholder, and sql.ErrTxDone in every other case.
C10_ClosedOrBindingError ==
    (res.op \in Capabilities /\ res.h # 0 /\ res.st0 \in Terminal) =>
        /\ res.err = IF res.op # "Prepare" /\ ~res.bound
                     THEN ErrMissingBinding ELSE ErrTxDone
        /\ res.panic = NoPanic
        /\ ~res.io
        /\ ~res.changed

C10_Witness ==
    /\ res.op = "Insert" /\ res.h # 0
    /\ res.st0 \in Terminal
    /\ res.bound
    /\ res.err = ErrTxDone

\* ---- passing errors through
\* the calls that hand the error of their backend call to the caller
PassThrough == Capabilities \cup {"Commit", "Rollback", "Close", "Ping"}

\* the calls that render a query
Renders == {"Query", "Insert", "Exec"}

\* C11: when the backend refuses to begin a transaction, Begin returns the
\* backend's error, not nil.
C11_BeginReturnsBackendError ==
    res.op = "Begin" => res.err = res.berr

\* C12: Query, Insert, Exec and Prepare of the connection handle, of the
\* transaction handle and of both kinds of statement, and Commit, Rollback,
\* Close and Ping, return exactly the error their backend call returned.
C12_BackendErrorPassedThrough ==
    (res.op \in PassThrough /\ res.berr # Nil) =>
        /\ res.err = res.berr
        /\ res.panic = NoPanic

C12_Witness ==
    /\ res.op = "Close" /\ res.s # 0
    /\ res.berr = ErrBackend
    /\ res.err = ErrBackend

\* C13: Query, Insert and Exec of the connection handle, of the transaction
\* handle and of both kinds of statement, given a query with an unbound named
\* placeholder, return the missing-binding error, make no backend call and
\* leave the table and the transaction as they were.
C13_BindingErrorBeforeBackend ==
    (res.op \in Renders /\ ~res.bound) =>
        /\ res.err = ErrMissingBinding
        /\ res.berr = Nil
        /\ res.panic = NoPanic
        /\ ~res.io
        /\ ~res.changed
        /\ (res.h # 0 => tx[res.h].st = res.st0)

C13_Witness ==
    /\ res.op = "Insert" /\ res.s # 0 /\ res.h = 0
    /\ ~res.bound
    /\ res.err = ErrMissingBinding
    /\ ~res.io
\* ---- rendering
\* the positions of the placeholder markers of a template
ParAt(tmpl) == {i \in DOMAIN tmpl : tmpl[i][1] = "par"}

\* the position of the k-th marker from the left
NthPar(tmpl, k) ==
    CHOOSE i \in ParAt(tmpl) : Cardinality({j \in ParAt(tmpl) : j <= i}) = k

\* a named-style query with a value bound to every name its template uses
AllBound(q) ==
    /\ q.style = "named"
    /\ \A i \in ParAt(q.tmpl) : q.tmpl[i][2] \in DOMAIN q.named

\* the last call rendered rq and handed the result to the backend
Rendered == res.op \in Renders /\ res.io

\* C14: for a named-style query with every name bound, the backend is handed
\* one argument for each placeholder occurrence, in the left-to-right order
\* of the occurrences in the template: the k-th argument is the value bound
\* to the name of the k-th marker, so a name used twice gives its value
\* twice, and the text holds as many "?" as there are arguments.
C14_OneArgPerOccurrence ==
    (Rendered /\ AllBound(rq)) =>
        /\ Len(res.sent.args) = Cardinality(ParAt(rq.tmpl))
        /\ \A k \in 1..Len(res.sent.args) :
               res.sent.args[k] = rq.named[rq.tmpl[NthPar(rq.tmpl, k)][2]]
        /\ Cardinality({i \in DOMAIN res.sent.text : res.sent.text[i] = "?"})
               = Len(res.sent.args)

C14_Witness ==
    /\ Rendered /\ res.op = "Insert" /\ res.h = 0
    /\ rq.style = "named"
    /\ rq.tmpl = <<Par("b"), Par("a"), Par("b")>>
    /\ res.sent.args = <<7, 5, 7>>

\* C15: every call renders with the token "?", whichever handle makes the
\* call and however many calls came before: each marker of the template
\* becomes "?", every other piece of text stays as it is, and SELECT x WHERE
\* y = :a AND z = :a with a = 5 becomes SELECT x WHERE y = ? AND z = ? with
\* the arguments 5, 5.
C15_FixedToken ==
    Rendered =>
        /\ Len(res.sent.text) = Len(rq.tmpl)
        /\ \A i \in DOMAIN rq.tmpl :
               res.sent.text[i] = IF rq.tmpl[i][1] = "par" THEN "?" ELSE rq.tmpl[i][2]
        /\ (rq = ScenarioQuery =>
               /\ res.sent.text = <<"SELECT x WHERE y =", "?", "AND z =", "?">>
               /\ res.sent.args = <<5, 5>>)

C15_Witness ==
    /\ Rendered /\ res.op = "Query" /\ res.h # 0
    /\ rq = ScenarioQuery
    /\ res.sent.text = <<"SELECT x WHERE y =", "?", "AND z =", "?">>
    /\ res.sent.args = <<5, 5>>
    /\ res.err = Nil

\* C16: for a positional-style query the backend is handed exactly the
\* appended values, in the order they were appended.
C16_AppendedArgsUnchanged ==
    (Rendered /\ rq.style = "append") => res.sent.args = rq.args

C16_Witness ==
    /\ Rendered /\ res.op = "Insert" /\ res.h # 0
    /\ rq.style = "append"
    /\ rq.args = <<7, 5>>
    /\ res.sent.args = <<7, 5>>
    /\ res.err = Nil
\* ---- statements and transactions
\* the last call was a count of the table through the connection handle
Counted ==
    /\ res.op = "Query" /\ res.h = 0 /\ res.s = 0
    /\ res.sent.text = <<"SELECT">>
    /\ res.err = Nil

\* the rows in the table that the connection handle or a statement of it
\* wrote while transaction h was open
InsideRows(h) == SelectSeq(db, LAMBDA r : r.by = 0 /\ h \in r.during)

\* C17: every row written through a statement prepared on a transaction
\* handle belongs to that transaction: it is not in the table while the
\* transaction is open or after it was rolled back (a count gives 0), and it
\* is in the table once the transaction is committed (a count gives 1).
C17_StmtTxRunsInTransaction ==
    /\ \A h \in Handles :
           /\ (tx[h].st \in {"Active", "RolledBack"} => RowsBy(h) = <<>>)
           /\ (tx[h].st = "Committed" => RowsBy(h) = tx[h].writes)
    /\ (res.op \in Renders /\ res.s # 0 /\ res.h # 0 /\ res.err = Nil) =>
           /\ res.st0 = "Active"
           /\ res.changed
           /\ tx[res.h].writes # <<>>
    /\ (Counted => res.read = Len(db))

C17_Witness ==
    /\ Counted /\ res.read = 0
    /\ \E h \in Handles :
           /\ tx[h].st = "RolledBack" /\ tx[h].ferr = Nil
           /\ Len(tx[h].writes) = 1
           /\ \E i \in TxStmts : stmts[i].tx = h

\* C18 as stated: after a row was inserted through a statement of the
\* connection handle while a transaction was open and the transaction was
\* rolled back, a count through the connection handle gives 0.
C18_ConnStmtRolledBack ==
    \A h \in Handles :
        (Counted /\ tx[h].st = "RolledBack" /\ db = InsideRows(h)) => res.read = 0

\* C18 amended: a row inserted through a statement of the connection handle
\* is in the table at once, whatever transactions are open, and the rollback
\* of a transaction that was open at the insert leaves it there: the count
\* through the connection handle gives the number of those rows, 1 after one
\* insert into an empty table.
C18_ConnStmtOutlivesRollback ==
    /\ (res.op = "Insert" /\ res.s # 0 /\ res.h = 0 /\ res.err = Nil) =>
           /\ res.changed
           /\ db # <<>>
           /\ db[Len(db)] = Row(0, res.sent.args[1], Open)
    /\ \A h \in Handles :
           (Counted /\ tx[h].st = "RolledBack" /\ db = InsideRows(h)) =>
               res.read = Len(InsideRows(h))

C18_Witness ==
    /\ Counted /\ res.read = 1
    /\ \E h \in Handles :
           /\ tx[h].st = "RolledBack"
           /\ db = InsideRows(h)
           /\ Len(db) = 1

\* C19: a read through a transaction handle whose transaction is open sees
\* the table and the rows written earlier through the same handle: after one
\* insert into an empty table the count is 1.
C19_ReadSeesOwnWrites ==
    (/\ res.op = "Query" /\ res.h # 0 /\ res.s = 0
     /\ res.st0 = "Active"
     /\ res.sent.text = <<"SELECT">>
     /\ res.err = Nil) =>
        res.read = Len(db) + Len(tx[res.h].writes)

C19_Witness ==
    /\ res.op = "Query" /\ res.h # 0 /\ res.s = 0
    /\ res.err = Nil
    /\ res.read = 1
    /\ db = <<>>
    /\ tx[res.h].st = "Active"
    /\ Len(tx[res.h].writes) = 1

\* C20: a call whose context is cancelled in flight returns the cancellation
\* error, and when the body returns that error vsql.Txn issues Rollback and
\* returns the error: the transaction is RolledBack and none of its rows is
\* in the table.
C20_CancelledCallRollsBack ==
    /\ (res.berr = ErrCanceled => res.err = ErrCanceled)
    /\ (Exited /\ body.kind = "returned" /\ body.err = ErrCanceled) =>
           /\ pc = "done"
           /\ issued = <<"Rollback">>
           /\ ret = [err |-> ErrCanceled, panic |-> NoPanic]
           /\ tx[wtx].st = "RolledBack"
           /\ RowsBy(wtx) = <<>>
           /\ (~outside => db = snap)

C20_Witness ==
    /\ Exited /\ body.kind = "returned" /\ body.err = ErrCanceled
    /\ res.op = "Query" /\ res.err = ErrCanceled
    /\ issued = <<"Rollback">>
    /\ tx[wtx].st = "RolledBack"
    /\ Len(tx[wtx].writes) = 1
    /\ db = snap

\* ---- the flag a body returns
\* the body wrote one row through its handle and returned (flag, nil), and
\* nobody else wrote to the table meanwhile
InsertedAndReturned(flag) ==
    /\ Returned(flag, Nil)
    /\ Len(tx[wtx].writes) = 1
    /\ ~outside

Values(rows) == [i \in DOMAIN rows |-> rows[i].v]

\* the last call was made on an open transaction and on the connection handle
Paired == res.op \in Capabilities /\ twin.op = res.op /\ res.st0 = "Active"

\* C22: a call made on the connection handle and on an open transaction
\* handle hands the same text and the same arguments to the backend and
\* gives the caller the same error, and once the transaction is committed
\* the rows the calls on the transaction handle wrote are in the table with
\* the same values in the same order as the rows the calls on the connection
\* handle wrote.
C22_HandlesAgree ==
    /\ Paired =>
           /\ res.sent = twin.sent
           /\ res.err = twin.err
           /\ res.io = twin.io
           /\ res.changed = twin.changed
    /\ \A h \in Handles :
           tx[h].st = "Committed" => Values(RowsBy(h)) = Values(InsideRows(h))

C22_Witness ==
    \E h \in Handles :
        /\ tx[h].st = "Committed"
        /\ Values(RowsBy(h)) = <<5, 21>>
        /\ Values(InsideRows(h)) = <<5, 21>>
        /\ Len(stmts) = 2

\* ---- statements
\* C23: Prepare on the connection handle and on the transaction handle hands
\* the backend the text alone and never looks a bound value up: it never
\* returns the missing-binding error, also for a query with an unbound named
\* placeholder, and an error it returns is the one its backend call returned.
C23_PrepareRendersTextOnly ==
    res.op = "Prepare" =>
        /\ res.err # ErrMissingBinding
        /\ res.err = res.berr
        /\ (res.io => res.sent.text # <<>> /\ res.sent.args = <<>>)
        /\ (~res.bound /\ res.st0 \in {"pool", "Active"} => res.io)

C23_Witness ==
    /\ res.op = "Prepare" /\ res.h = 0
    /\ ~res.bound
    /\ res.err = Nil
    /\ res.sent.text = <<"INSERT", "?">>
    /\ Len(stmts) = 1 /\ stmts[1].tx = 0

\* the last call was Query, Insert or Exec on a statement, with rq
StmtCalled == res.op \in Renders /\ res.s # 0

\* parameter objects that differ in nothing but their text
SameValues(p, q) == p.style = q.style /\ p.named = q.named /\ p.args = q.args

\* C24 as stated: a call on a statement hands the backend the text of the
\* plan fixed at Prepare, and the text of the parameter object has no effect:
\* a parameter object with the same values and any other text gives the same
\* arguments and fails or passes the renderer alike.
C24_ParamTextHasNoEffect ==
    StmtCalled =>
        /\ (res.io => res.sent.text = stmts[res.s].text)
        /\ \A q \in StmtRenderQueries :
               SameValues(q, rq) =>
                   /\ res.bound = (Interpolate(q).err = Nil)
                   /\ (res.io => res.sent.args = Interpolate(q).args)

\* C24 amended: a call on a statement hands the backend the text of the plan
\* fixed at Prepare, never the text of the parameter object, and the
\* arguments the parameter object renders to. For a positional object these
\* are its appended values, whatever its text. For a named object its own
\* text decides them: one value for each marker of that text, left to right,
\* and the call fails with the missing-binding error before the backend is
\* reached when one of these markers has no bound value.
C24_PlanTextParamArgs ==
    StmtCalled =>
        /\ (res.io => res.sent.text = stmts[res.s].text)
        /\ (rq.style = "append" =>
               /\ res.bound
               /\ (res.io => res.sent.args = rq.args))
        /\ (rq.style = "named" =>
               /\ res.bound = AllBound(rq)
               /\ (~res.bound => res.err = ErrMissingBinding /\ ~res.io)
               /\ (res.io =>
                      /\ Len(res.sent.args) = Cardinality(ParAt(rq.tmpl))
                      /\ \A k \in 1..Len(res.sent.args) :
                             res.sent.args[k] = rq.named[rq.tmpl[NthPar(rq.tmpl, k)][2]]))

C24_Witness ==
    /\ StmtCalled /\ res.op = "Insert" /\ res.h # 0
    /\ rq.style = "named"
    /\ rq.tmpl = <<Par("b")>>
    /\ DOMAIN rq.named = Names
    /\ res.sent = [text |-> <<"INSERT", "?">>, args |-> <<7>>]
    /\ res.err = Nil
    /\ tx[res.h].writes = <<Row(res.h, 7, {res.h})>>

\* ---- Close
\* C25: Query, Insert and Exec on a statement of either kind that was closed
\* return an error and neither read nor write, and a statement that was
\* closed stays closed: a second Close returns nil or an error and reopens
\* nothing.
C25_ClosedStatementFails ==
    [][/\ \A i \in DOMAIN stmts : stmts[i].closed => stmts'[i].closed
       /\ (res'.op \in Renders /\ res'.s # 0 /\ stmts[res'.s].closed) =>
              /\ res'.err # Nil
              /\ ~res'.io
              /\ ~res'.changed
              /\ res'.read = 0
              /\ db' = db]_vars

\* C26: Close on a statement prepared on a transaction handle changes neither
\* the transaction nor the table: the transaction stays as it was, Active
\* with the rows written so far, and afterwards as before a Commit that
\* succeeds puts exactly these rows into the table and a Rollback none.
C26_CloseLeavesTransaction ==
    [][/\ (res'.op = "Close" /\ res'.s # 0 /\ res'.h # 0) =>
              /\ tx' = tx
              /\ db' = db
       /\ \A h \in Handles :
              /\ (tx[h].st = "Active" /\ tx'[h].st = "Committed") =>
                     db' = db \o tx[h].writes
              /\ (tx[h].st = "Active" /\ tx'[h].st = "RolledBack") =>
                     db' = db]_vars

C26_Witness ==
    /\ res.op = "Rollback" /\ res.h # 0 /\ res.err = Nil
    /\ res.st0 = "Active"
    /\ tx[res.h].st = "RolledBack"
    /\ Len(tx[res.h].writes) = 1
    /\ \E i \in TxStmts : stmts[i].tx = res.h /\ stmts[i].closed
    /\ db = <<>>

\* ---- statements of a transaction that has ended
\* C27: Query, Insert and Exec on a statement prepared on a transaction
\* handle whose transaction is Committed or RolledBack return an error, hand
\* nothing to the backend and write nothing; no row of such a statement
\* reaches the table past its transaction: the table holds the rows of a
\* transaction when it was committed and none of them otherwise.
C27_StmtOfEndedTxFails ==
    /\ (StmtCalled /\ res.h # 0 /\ res.st0 \in Terminal) =>
           /\ res.err = IF res.bound THEN ErrTxDone ELSE ErrMissingBinding
           /\ res.panic = NoPanic
           /\ ~res.io
           /\ ~res.changed
           /\ res.sent = NoSent
           /\ tx[res.h].st = res.st0
    /\ \A h \in Handles :
           RowsBy(h) = IF tx[h].st = "Committed" THEN tx[h].writes ELSE <<>>

C27_Witness ==
    /\ StmtCalled /\ res.op = "Insert" /\ res.h # 0
    /\ res.st0 = "Committed"
    /\ res.bound
    /\ res.err = ErrTxDone
    /\ Len(tx[res.h].writes) = 1
    /\ db = tx[res.h].writes

\* ---- vsql.Txn after a Begin that failed
\* C28: when the backend refuses to begin the transaction, vsql.Txn returns
\* the error of Begin, does not call the body and issues neither Commit nor
\* Rollback; the body only ever runs with a handle whose transaction is
\* Active.
C28_BeginFailureSkipsBody ==
    /\ (wtx # 0 /\ tx[wtx].st = "nil") =>
           /\ pc = "done"
           /\ body = NoBody
           /\ issued = <<>>
           /\ ret = [err |-> ErrBackend, panic |-> NoPanic]
    /\ (pc = "body" => tx[wtx].st = "Active")
====
